---- MODULE Spec2Model ----
(***************************************************************************)
(* Model of Week3/vertex_pipeline/main.cpp: the render loop of main(), the *)
(* callbacks key_callback and framebuffer_size_callback, processInput and  *)
(* the vertex shader.                                                      *)
(*                                                                         *)
(* Numbers that are floats in the source are kept in tenths (0.5 -> 5).    *)
(* A 4x4 matrix is the sequence of the non-identity primitive transforms   *)
(* it is the product of; the matrix product is concatenation.              *)
(***************************************************************************)
EXTENDS Integers, Sequences, FiniteSets, TLC

\* ---------------------------------------------------------------- bounds
MaxTime == 3        \* elapsed time (ticks of glfwGetTime) the model follows
MaxEvents == 2      \* events one call of glfwPollEvents dispatches at most

\* ------------------------------------------------------------- constants
SCR_WIDTH == 800
SCR_HEIGHT == 600

MODEL_SPACE == 0
WORLD_SPACE == 1
VIEW_SPACE == 2
CLIP_SPACE == 3

GLFW_RELEASE == 0
GLFW_PRESS == 1
GLFW_REPEAT == 2

GLFW_KEY_1 == 49
GLFW_KEY_2 == 50
GLFW_KEY_3 == 51
GLFW_KEY_4 == 52
GLFW_KEY_5 == 53
GLFW_KEY_ESCAPE == 256

Keys == {GLFW_KEY_1, GLFW_KEY_2, GLFW_KEY_3, GLFW_KEY_4, GLFW_KEY_5,
         GLFW_KEY_ESCAPE}
KeyActions == {GLFW_RELEASE, GLFW_PRESS, GLFW_REPEAT}

\* framebuffer sizes a resize event may report
FbSizes == {<<1024, 768>>, <<640, 640>>}

\* the eight cube vertices (tenths)
vertices == << <<-5, -5, 5>>, <<5, -5, 5>>, <<5, 5, 5>>, <<-5, 5, 5>>,
               <<-5, -5, -5>>, <<5, -5, -5>>, <<5, 5, -5>>, <<-5, 5, -5>> >>

Red == <<1, 0, 0>>
Green == <<0, 1, 0>>
Blue == <<0, 0, 1>>
Yellow == <<1, 1, 0>>
NoColor == <<0, 0, 0>>

VARIABLES
    pc,            \* position of main()
    result,        \* <<>> while running, <<r>> once main returned r
    loopEntered,   \* the body of the render loop has been entered
    linked,        \* shaderProgram linked successfully
    diagnostics,   \* messages written to std::cout
    activeSpace,   \* the global activeSpace
    shouldClose,   \* the window's close-request flag
    escKey,        \* last state GLFW reported for GLFW_KEY_ESCAPE
    viewport,      \* the GL viewport <<x, y, w, h>>
    time,          \* glfwGetTime() at the last frame
    frame,         \* what the last iteration rendered
    lastEvent,     \* the event the last callback invocation was given
    polled,        \* events dispatched by the current glfwPollEvents call
    closeSets,     \* calls of glfwSetWindowShouldClose(window, true)
    escEdges       \* press edges of Escape delivered so far

vars == <<pc, result, loopEntered, linked, diagnostics, activeSpace,
          shouldClose, escKey, viewport, time, frame, lastEvent, polled,
          closeSets, escEdges>>

\* ------------------------------------------------------------ math (glm)
RECURSIVE GCD(_, _)
GCD(a, b) == IF b = 0 THEN a ELSE GCD(b, a % b)

\* (float)w / (float)h, as a fraction in lowest terms
Aspect(w, h) == <<w \div GCD(w, h), h \div GCD(w, h)>>

Identity == <<>>
Rotate(m, angle, axis) ==
    IF angle = 0 THEN m
    ELSE m \o <<[op |-> "rotate", arg |-> <<angle>> \o axis]>>
Translate(m, v) == m \o <<[op |-> "translate", arg |-> v]>>
Perspective(fovy, aspect, near, far) ==
    <<[op |-> "perspective", arg |-> <<fovy>> \o aspect \o <<near, far>>]>>
Mul(a, b) == a \o b

\* ---------------------------------------------------------------- shader
\* the shader with the colour of the WORLD_SPACE branch copied to VIEW_SPACE
VertexShader_CopiedColor(aPos, model, view, projection, as, undef) ==
    IF as = 0 THEN
        [gl_Position |-> [m |-> Mul(projection, view), v |-> aPos],
         vertexColor |-> Red]
    ELSE IF as = 1 \/ as = 2 THEN
        [gl_Position |-> [m |-> Mul(Mul(projection, view), model), v |-> aPos],
         vertexColor |-> Green]
    ELSE IF as = 3 THEN
        [gl_Position |-> [m |-> Mul(Mul(projection, view), model), v |-> aPos],
         vertexColor |-> Yellow]
    ELSE undef

\* the shader with the model matrix applied in every branch
VertexShader_ModelAlways(aPos, model, view, projection, as, undef) ==
    IF as \in {0, 1, 2, 3} THEN
        [gl_Position |-> [m |-> Mul(Mul(projection, view), model), v |-> aPos],
         vertexColor |-> CASE as = 0 -> Red [] as = 1 -> Green
                           [] as = 2 -> Blue [] as = 3 -> Yellow]
    ELSE undef

\* The outputs of one vertex-shader invocation.  undef is the value of the
\* outputs the invocation does not write.
VertexShader(aPos, model, view, projection, as, undef) ==
    IF as = 0 THEN
        [gl_Position |-> [m |-> Mul(projection, view), v |-> aPos],
         vertexColor |-> Red]
    ELSE IF as = 1 THEN
        [gl_Position |-> [m |-> Mul(Mul(projection, view), model), v |-> aPos],
         vertexColor |-> Green]
    ELSE IF as = 2 THEN
        [gl_Position |-> [m |-> Mul(Mul(projection, view), model), v |-> aPos],
         vertexColor |-> Blue]
    ELSE IF as = 3 THEN
        [gl_Position |-> [m |-> Mul(Mul(projection, view), model), v |-> aPos],
         vertexColor |-> Yellow]
    ELSE undef

FragmentShader(vertexColor) == vertexColor

\* values an unwritten shader output, or a draw without a valid program,
\* may show: nothing, or a colour left over from elsewhere
UndefOutputs ==
    [gl_Position : {[m |-> Identity, v |-> <<0, 0, 0>>]},
     vertexColor : {NoColor, Red}]

\* ------------------------------------------------------------- callbacks
\* key_callback with the cases shifted by one
key_callback_OffByOne(as, key, action) ==
    IF action = GLFW_PRESS /\ key \in {GLFW_KEY_1, GLFW_KEY_2, GLFW_KEY_3, GLFW_KEY_4}
    THEN key - GLFW_KEY_1 + 1
    ELSE as

\* key_callback without the test of action
key_callback_AnyAction(as, key, action) ==
    CASE key = GLFW_KEY_1 -> MODEL_SPACE
      [] key = GLFW_KEY_2 -> WORLD_SPACE
      [] key = GLFW_KEY_3 -> VIEW_SPACE
      [] key = GLFW_KEY_4 -> CLIP_SPACE
      [] OTHER -> as

key_callback(as, key, action) ==
    IF action = GLFW_PRESS THEN
        CASE key = GLFW_KEY_1 -> MODEL_SPACE
          [] key = GLFW_KEY_2 -> WORLD_SPACE
          [] key = GLFW_KEY_3 -> VIEW_SPACE
          [] key = GLFW_KEY_4 -> CLIP_SPACE
          [] OTHER -> as
    ELSE as

framebuffer_size_callback(width, height) == <<0, 0, width, height>>

\* spaceInfo with the label of CLIP_SPACE copied to VIEW_SPACE
spaceInfo_CopiedLabel(as) ==
    CASE as = MODEL_SPACE -> "MODEL SPACE (Press 1-4 to change)"
      [] as = WORLD_SPACE -> "WORLD SPACE (Press 1-4 to change)"
      [] as = VIEW_SPACE -> "CLIP SPACE (Press 1-4 to change)"
      [] as = CLIP_SPACE -> "CLIP SPACE (Press 1-4 to change)"
      [] OTHER -> ""

spaceInfo(as) ==
    CASE as = MODEL_SPACE -> "MODEL SPACE (Press 1-4 to change)"
      [] as = WORLD_SPACE -> "WORLD SPACE (Press 1-4 to change)"
      [] as = VIEW_SPACE -> "VIEW SPACE (Press 1-4 to change)"
      [] as = CLIP_SPACE -> "CLIP SPACE (Press 1-4 to change)"
      [] OTHER -> ""

WindowTitle(as) == "Vertex Transformation Pipeline - " \o spaceInfo(as)

\* ---------------------------------------------------------------- events
NoEvent == [type |-> "none", key |-> 0, action |-> 0, size |-> <<0, 0>>]
KeyEv(k, a) == [type |-> "key", key |-> k, action |-> a, size |-> <<0, 0>>]
ResizeEv(s) == [type |-> "resize", key |-> 0, action |-> 0, size |-> s]
CloseEv == [type |-> "close", key |-> 0, action |-> 0, size |-> <<0, 0>>]

NoFrame ==
    [rendered |-> FALSE, time |-> 0, uniform |-> 0, aspect |-> <<0, 0>>,
     viewport |-> <<0, 0, 0, 0>>, shaded |-> FALSE,
     positions |-> [i \in 1..8 |-> [m |-> Identity, v |-> <<0, 0, 0>>]],
     color |-> NoColor, title |-> "", closePending |-> FALSE]

\* ------------------------------------------------------------------ Init
Init ==
    /\ pc = "createWindow"
    /\ result = <<>>
    /\ loopEntered = FALSE
    /\ linked = FALSE
    /\ diagnostics = {}
    /\ activeSpace = MODEL_SPACE
    /\ shouldClose = FALSE
    /\ escKey = GLFW_RELEASE
    /\ viewport = <<0, 0, 0, 0>>
    /\ time = 0
    /\ frame = NoFrame
    /\ lastEvent = NoEvent
    /\ polled = 0
    /\ closeSets = 0
    /\ escEdges = 0

\* ------------------------------------------------------------------ main
\* glfwInit .. glfwSetKeyCallback
CreateWindow ==
    /\ pc = "createWindow"
    /\ \E ok \in BOOLEAN :
        IF ok THEN
            /\ pc' = "loadGL"
            /\ viewport' = <<0, 0, SCR_WIDTH, SCR_HEIGHT>>
            /\ UNCHANGED <<result, diagnostics>>
        ELSE
            /\ pc' = "returned"
            /\ result' = <<-1>>
            /\ diagnostics' = diagnostics \cup {"Failed to create GLFW window"}
            /\ UNCHANGED viewport
    /\ UNCHANGED <<loopEntered, linked, activeSpace, shouldClose, escKey,
                   time, frame, lastEvent, polled, closeSets, escEdges>>

\* LoadGL without the return on failure
LoadGL_NoReturn ==
    /\ pc = "loadGL"
    /\ \E ok \in BOOLEAN :
        /\ pc' = "buildShaders"
        /\ diagnostics' = IF ok THEN diagnostics
                          ELSE diagnostics \cup {"Failed to initialize GLAD"}
    /\ UNCHANGED <<result, loopEntered, linked, activeSpace, shouldClose,
                   escKey, viewport, time, frame, lastEvent, polled,
                   closeSets, escEdges>>

\* gladLoadGLLoader
LoadGL ==
    /\ pc = "loadGL"
    /\ \E ok \in BOOLEAN :
        IF ok THEN
            /\ pc' = "buildShaders"
            /\ UNCHANGED <<result, diagnostics>>
        ELSE
            /\ pc' = "returned"
            /\ result' = <<-1>>
            /\ diagnostics' = diagnostics \cup {"Failed to initialize GLAD"}
    /\ UNCHANGED <<loopEntered, linked, activeSpace, shouldClose, escKey,
                   viewport, time, frame, lastEvent, polled, closeSets,
                   escEdges>>

\* compile both shaders, link the program, set up the cube's buffers
BuildShaders ==
    /\ pc = "buildShaders"
    /\ \E vs \in BOOLEAN, fs \in BOOLEAN, ln \in BOOLEAN :
        /\ linked' = (vs /\ fs /\ ln)
        /\ diagnostics' = diagnostics
              \cup (IF vs THEN {} ELSE {"ERROR::SHADER::VERTEX::COMPILATION_FAILED"})
              \cup (IF fs THEN {} ELSE {"ERROR::SHADER::FRAGMENT::COMPILATION_FAILED"})
              \cup (IF vs /\ fs /\ ln THEN {} ELSE {"ERROR::SHADER::PROGRAM::LINKING_FAILED"})
    /\ pc' = "loopTest"
    /\ UNCHANGED <<result, loopEntered, activeSpace, shouldClose, escKey,
                   viewport, time, frame, lastEvent, polled, closeSets,
                   escEdges>>

\* the loop test without its negation
LoopTest_Inverted ==
    /\ pc = "loopTest"
    /\ IF ~shouldClose THEN
            /\ pc' = "returned"
            /\ result' = <<0>>
            /\ UNCHANGED loopEntered
       ELSE
            /\ pc' = "processInput"
            /\ loopEntered' = TRUE
            /\ UNCHANGED result
    /\ UNCHANGED <<linked, diagnostics, activeSpace, shouldClose, escKey,
                   viewport, time, frame, lastEvent, polled, closeSets,
                   escEdges>>

\* while (!glfwWindowShouldClose(window)); on exit: cleanup and return 0
LoopTest ==
    /\ pc = "loopTest"
    /\ IF shouldClose THEN
            /\ pc' = "returned"
            /\ result' = <<0>>
            /\ UNCHANGED loopEntered
       ELSE
            /\ pc' = "processInput"
            /\ loopEntered' = TRUE
            /\ UNCHANGED result
    /\ UNCHANGED <<linked, diagnostics, activeSpace, shouldClose, escKey,
                   viewport, time, frame, lastEvent, polled, closeSets,
                   escEdges>>

\* processInput testing for the released state
processInput_Released ==
    /\ pc = "processInput"
    /\ IF escKey = GLFW_RELEASE THEN
            /\ shouldClose' = TRUE
            /\ closeSets' = closeSets + 1
       ELSE
            UNCHANGED <<shouldClose, closeSets>>
    /\ pc' = "render"
    /\ UNCHANGED <<result, loopEntered, linked, diagnostics, activeSpace,
                   escKey, viewport, time, frame, lastEvent, polled, escEdges>>

processInput ==
    /\ pc = "processInput"
    /\ IF escKey = GLFW_PRESS THEN
            /\ shouldClose' = TRUE
            /\ closeSets' = closeSets + 1
       ELSE
            UNCHANGED <<shouldClose, closeSets>>
    /\ pc' = "render"
    /\ UNCHANGED <<result, loopEntered, linked, diagnostics, activeSpace,
                   escKey, viewport, time, frame, lastEvent, polled, escEdges>>

\* glClearColor .. glfwSwapBuffers of one iteration
Render ==
    /\ pc = "render"
    /\ time < MaxTime
    /\ \E t \in (time + 1)..MaxTime, undef \in UndefOutputs :
        LET model == Rotate(Identity, t, <<5, 10, 0>>)
            view == Translate(Identity, <<0, 0, -30>>)
            aspect == Aspect(SCR_WIDTH, SCR_HEIGHT)
            projection == Perspective(45, aspect, 1, 1000)
            out == [i \in 1..8 |->
                      IF linked
                      THEN VertexShader(vertices[i], model, view, projection,
                                        activeSpace, undef)
                      ELSE undef]
        IN  /\ time' = t
            /\ frame' = [rendered |-> TRUE,
                         time |-> t,
                         uniform |-> activeSpace,
                         aspect |-> aspect,
                         viewport |-> viewport,
                         shaded |-> linked,
                         positions |-> [i \in 1..8 |-> out[i].gl_Position],
                         color |-> FragmentShader(out[1].vertexColor),
                         title |-> WindowTitle(activeSpace),
                         closePending |-> shouldClose]
    /\ polled' = 0
    /\ pc' = "pollEvents"
    /\ UNCHANGED <<result, loopEntered, linked, diagnostics, activeSpace,
                   shouldClose, escKey, viewport, lastEvent, closeSets,
                   escEdges>>

\* glfwPollEvents delivers a key event: GLFW records the key's state and
\* calls key_callback
KeyEvent ==
    /\ pc = "pollEvents"
    /\ polled < MaxEvents
    /\ \E k \in Keys, a \in KeyActions :
        /\ k = GLFW_KEY_ESCAPE =>
              IF a = GLFW_PRESS THEN escKey = GLFW_RELEASE
                                ELSE escKey = GLFW_PRESS
        /\ escKey' = IF k # GLFW_KEY_ESCAPE THEN escKey
                     ELSE IF a = GLFW_RELEASE THEN GLFW_RELEASE
                     ELSE GLFW_PRESS
        /\ escEdges' = IF k = GLFW_KEY_ESCAPE /\ a = GLFW_PRESS
                       THEN escEdges + 1 ELSE escEdges
        /\ activeSpace' = key_callback(activeSpace, k, a)
        /\ lastEvent' = KeyEv(k, a)
    /\ polled' = polled + 1
    /\ UNCHANGED <<pc, result, loopEntered, linked, diagnostics, shouldClose,
                   viewport, time, frame, closeSets>>

\* glfwPollEvents delivers a framebuffer resize
ResizeEvent ==
    /\ pc = "pollEvents"
    /\ polled < MaxEvents
    /\ \E s \in FbSizes :
        /\ viewport' = framebuffer_size_callback(s[1], s[2])
        /\ lastEvent' = ResizeEv(s)
    /\ polled' = polled + 1
    /\ UNCHANGED <<pc, result, loopEntered, linked, diagnostics, activeSpace,
                   shouldClose, escKey, time, frame, closeSets, escEdges>>

\* glfwPollEvents delivers the window's close button: GLFW sets the flag
CloseEvent ==
    /\ pc = "pollEvents"
    /\ polled < MaxEvents
    /\ shouldClose' = TRUE
    /\ lastEvent' = CloseEv
    /\ polled' = polled + 1
    /\ UNCHANGED <<pc, result, loopEntered, linked, diagnostics, activeSpace,
                   escKey, viewport, time, frame, closeSets, escEdges>>

\* glfwPollEvents returns
PollEventsReturn ==
    /\ pc = "pollEvents"
    /\ pc' = "loopTest"
    /\ UNCHANGED <<result, loopEntered, linked, diagnostics, activeSpace,
                   shouldClose, escKey, viewport, time, frame, lastEvent,
                   polled, closeSets, escEdges>>

Next ==
    \/ CreateWindow
    \/ LoadGL
    \/ BuildShaders
    \/ LoopTest
    \/ processInput
    \/ Render
    \/ KeyEvent
    \/ ResizeEvent
    \/ CloseEvent
    \/ PollEventsReturn

Spec == Init /\ [][Next]_vars

\* ------------------------------------------------------------ properties
NumberKeys == {GLFW_KEY_1, GLFW_KEY_2, GLFW_KEY_3, GLFW_KEY_4}
FatalMessages == {"Failed to create GLFW window", "Failed to initialize GLAD"}
InLoop == pc \in {"loopTest", "processInput", "render", "pollEvents"}

\* C1: a press of '1', '2', '3', '4' delivered to key_callback leaves
\* activeSpace at MODEL_SPACE, WORLD_SPACE, VIEW_SPACE, CLIP_SPACE
\* respectively, whatever it was before.
C1_PressSelectsSpace ==
    /\ lastEvent = KeyEv(49, GLFW_PRESS) => activeSpace = 0
    /\ lastEvent = KeyEv(50, GLFW_PRESS) => activeSpace = 1
    /\ lastEvent = KeyEv(51, GLFW_PRESS) => activeSpace = 2
    /\ lastEvent = KeyEv(52, GLFW_PRESS) => activeSpace = 3

\* '1' pressed after a frame in CLIP_SPACE was rendered
C1_Witness ==
    /\ lastEvent = KeyEv(GLFW_KEY_1, GLFW_PRESS)
    /\ frame.rendered /\ frame.uniform = CLIP_SPACE
    /\ activeSpace = MODEL_SPACE

\* C2: activeSpace is always one of 0, 1, 2, 3, and it is MODEL_SPACE until
\* the first event is delivered.
C2_ActiveSpaceInRange ==
    /\ activeSpace \in {0, 1, 2, 3}
    /\ lastEvent = NoEvent => activeSpace = 0

\* CLIP_SPACE is held across a resize and a rendered frame
C2_Witness ==
    /\ activeSpace = CLIP_SPACE
    /\ frame.rendered /\ frame.uniform = CLIP_SPACE
    /\ lastEvent.type = "resize"

\* C3 as stated: the flag is set exactly once per press edge of Escape, so
\* after every input step there are as many sets as press edges.
C3_OncePerPressEdge ==
    pc = "render" => closeSets = escEdges

\* C3 as the code has it: processInput sets the flag when, at the input
\* step, the last reported state of Escape is pressed; it does so at most
\* once in a run, never without a press edge before it, and a held Escape
\* (repeat events) adds no further set.
C3_LevelTriggered ==
    /\ closeSets <= 1
    /\ closeSets <= escEdges
    /\ pc = "render" => (closeSets = 1 <=> escKey = GLFW_PRESS)
    /\ closeSets = 1 => shouldClose

\* Escape still held (a repeat was delivered) when main returns, one set
C3_Witness ==
    /\ pc = "returned"
    /\ lastEvent = KeyEv(GLFW_KEY_ESCAPE, GLFW_REPEAT)
    /\ closeSets = 1

\* C4 as stated: after a resize to (W,H) the viewport is (0,0,W,H) and every
\* frame rendered afterwards uses the aspect ratio W/H.
C4_AspectFollowsResize ==
    /\ lastEvent.type = "resize" =>
          viewport = <<0, 0, lastEvent.size[1], lastEvent.size[2]>>
    /\ frame.rendered =>
          frame.aspect = Aspect(frame.viewport[3], frame.viewport[4])

\* C5: the colour a shaded frame shows is fixed by the activeSpace uploaded
\* for it: 0 red, 1 green, 2 blue, 3 yellow.
C5_ColorByActiveSpace ==
    (frame.rendered /\ frame.shaded) =>
        frame.color = CASE frame.uniform = 0 -> <<1, 0, 0>>
                        [] frame.uniform = 1 -> <<0, 1, 0>>
                        [] frame.uniform = 2 -> <<0, 0, 1>>
                        [] frame.uniform = 3 -> <<1, 1, 0>>
                        [] OTHER -> <<>>

\* a yellow frame later than the first tick, after a resize
C5_Witness ==
    /\ frame.rendered /\ frame.shaded
    /\ frame.uniform = CLIP_SPACE /\ frame.color = Yellow
    /\ frame.time >= 2
    /\ frame.viewport = <<0, 0, 640, 640>>

\* C6: the emitted position of every vertex is projection * view * position
\* when the uploaded activeSpace is MODEL_SPACE, the same in every frame, and
\* projection * view * model * position otherwise, model being the rotation
\* by the frame's elapsed time.
C6_ModelAppliedIffNotModelSpace ==
    (frame.rendered /\ frame.shaded) =>
        \A i \in 1..8 :
            LET p == frame.positions[i]
                pv == <<[op |-> "perspective", arg |-> <<45, 4, 3, 1, 1000>>],
                        [op |-> "translate", arg |-> <<0, 0, -30>>]>>
                rot == [op |-> "rotate", arg |-> <<frame.time, 5, 10, 0>>]
            IN  /\ p.v = vertices[i]
                /\ frame.uniform = MODEL_SPACE => p.m = pv
                /\ frame.uniform # MODEL_SPACE => p.m = pv \o <<rot>>

\* back in MODEL_SPACE by a press of '1', at a later time
C6_Witness ==
    /\ frame.rendered /\ frame.shaded
    /\ frame.uniform = MODEL_SPACE /\ frame.time >= 2
    /\ Len(frame.positions[1].m) = 2
    /\ lastEvent.type = "close"

\* C7: main returns -1, the loop never entered, exactly when window creation
\* or the loader failed; otherwise, shader failures included, the loop is
\* entered and main returns 0 with the close request set.
C7_ExitCodes ==
    /\ result = <<-1>> <=> (diagnostics \cap FatalMessages # {})
    /\ result = <<-1>> => (pc = "returned" /\ ~loopEntered /\ ~frame.rendered)
    /\ InLoop => (diagnostics \cap FatalMessages = {})
    /\ (pc = "returned" /\ diagnostics \cap FatalMessages = {}) =>
          (result = <<0>> /\ loopEntered /\ shouldClose)
    /\ (pc = "loopTest" /\ ~shouldClose) => result = <<>>

\* a run whose program failed to link, rendered and returned 0
C7_Witness ==
    /\ pc = "returned" /\ result = <<0>>
    /\ "ERROR::SHADER::PROGRAM::LINKING_FAILED" \in diagnostics
    /\ frame.rendered

\* C8 as stated: no frame is rendered in an iteration in which a close
\* request is pending.
C8_NoFrameWhileClosePending ==
    frame.rendered => ~frame.closePending

\* C8 as the code has it: the loop tests the close request first, then
\* processInput runs, then the frame is rendered unconditionally, then the
\* events are polled; a frame rendered with a close request pending is the
\* frame of the iteration in which processInput raised it.
C8_LoopOrder ==
    [][ /\ pc = "loopTest" =>
              pc' = (IF shouldClose THEN "returned" ELSE "processInput")
        /\ pc = "processInput" => pc' = "render"
        /\ pc = "render" => (pc' = "pollEvents" /\ frame'.rendered)
        /\ pc = "pollEvents" => pc' \in {"pollEvents", "loopTest"}
        /\ frame' # frame => pc = "render"
        /\ (pc = "render" /\ frame'.closePending) =>
              (closeSets = 1 /\ escKey = GLFW_PRESS)
      ]_vars

\* a frame rendered after Escape raised the close request
C8_Witness ==
    /\ pc = "pollEvents"
    /\ frame.rendered /\ frame.closePending
    /\ closeSets = 1

\* C9: every rendered frame sets the title, and its label names the
\* activeSpace uploaded for that frame.
C9_TitleMatchesUniform ==
    frame.rendered =>
        frame.title = "Vertex Transformation Pipeline - "
            \o (CASE frame.uniform = 0 -> "MODEL"
                  [] frame.uniform = 1 -> "WORLD"
                  [] frame.uniform = 2 -> "VIEW"
                  [] frame.uniform = 3 -> "CLIP"
                  [] OTHER -> "?")
            \o " SPACE (Press 1-4 to change)"

\* a VIEW SPACE title, with a key pressed since
C9_Witness ==
    /\ frame.rendered /\ frame.uniform = VIEW_SPACE
    /\ frame.title = "Vertex Transformation Pipeline - VIEW SPACE (Press 1-4 to change)"
    /\ activeSpace = WORLD_SPACE

\* C10: only a press of '1'..'4' changes activeSpace; releases, repeats,
\* other keys, Escape, resizes, the close button and every step of main
\* leave it as it was.
C10_OnlyNumberPressChanges ==
    [][ \/ activeSpace' = activeSpace
        \/ /\ pc = "pollEvents"
           /\ polled' = polled + 1
           /\ lastEvent'.type = "key"
           /\ lastEvent'.action = GLFW_PRESS
           /\ lastEvent'.key \in NumberKeys
      ]_vars

\* a repeat of '3' delivered while in WORLD_SPACE
C10_Witness ==
    /\ lastEvent = KeyEv(GLFW_KEY_3, GLFW_REPEAT)
    /\ activeSpace = WORLD_SPACE
    /\ frame.rendered /\ frame.uniform = WORLD_SPACE
====
